---- MODULE Spec2Model ----
(***************************************************************************)
(* Model of the serial transfer protocol engine of src/App.tsx: the read   *)
(* callback that classifies inbound chunks, the connection lifecycle, the  *)
(* image transfer handshake, the transfer timeout checker and the image    *)
(* loop.  React state and refs keep their source names.  Text is a         *)
(* sequence of code points, a chunk a sequence of byte values.             *)
(***************************************************************************)
EXTENDS Integers, Sequences, FiniteSets, TLC

(***************************************************************************)
(* Text helpers: the JavaScript string operations the read callback uses.  *)
(***************************************************************************)

\* 'R' = 82: ready signal (line 381)
READY_BYTE == 82
\* 'K' = 75: success acknowledgment (line 392)
ACK_BYTE == 75
\* 'E' = 69: error acknowledgment (line 398)
ERR_BYTE == 69
CR == 13
LF == 10
\* U+FFFD, what TextDecoder emits for a malformed sequence
REPLACEMENT == 65533
\* U+FEFF, the byte order mark a TextDecoder strips at the start of its input
BOM == 65279

\* "FRAME_LOST\r\n" (lines 414, 418)
FRAME_LOST == <<70, 82, 65, 77, 69, 95, 76, 79, 83, 84, 13, 10>>
\* "INVALID_CMD\r\n" (lines 421, 423)
INVALID_CMD == <<73, 78, 86, 65, 76, 73, 68, 95, 67, 77, 68, 13, 10>>

\* new TextDecoder().decode(data): the WHATWG UTF-8 decoder, not fatal.
\* i: next byte, need: continuation bytes still expected, cp: code point so
\* far, lo..hi: the range the next continuation byte must lie in.
RECURSIVE Utf8(_, _, _, _, _, _)
Utf8(bytes, i, need, cp, lo, hi) ==
  IF i > Len(bytes)
    THEN (IF need > 0 THEN <<REPLACEMENT>> ELSE <<>>)
    ELSE LET b == bytes[i] IN
      IF need = 0
        THEN IF b < 128 THEN <<b>> \o Utf8(bytes, i + 1, 0, 0, 128, 191)
             ELSE IF b >= 194 /\ b <= 223
               THEN Utf8(bytes, i + 1, 1, b - 192, 128, 191)
             ELSE IF b >= 224 /\ b <= 239
               THEN Utf8(bytes, i + 1, 2, b - 224,
                         IF b = 224 THEN 160 ELSE 128,
                         IF b = 237 THEN 159 ELSE 191)
             ELSE IF b >= 240 /\ b <= 244
               THEN Utf8(bytes, i + 1, 3, b - 240,
                         IF b = 240 THEN 144 ELSE 128,
                         IF b = 244 THEN 143 ELSE 191)
             ELSE <<REPLACEMENT>> \o Utf8(bytes, i + 1, 0, 0, 128, 191)
        ELSE IF b < lo \/ b > hi
               \* malformed: one replacement, and the byte is decoded again
               THEN <<REPLACEMENT>> \o Utf8(bytes, i, 0, 0, 128, 191)
             ELSE IF need = 1
               THEN <<cp * 64 + (b - 128)>> \o Utf8(bytes, i + 1, 0, 0, 128, 191)
             ELSE Utf8(bytes, i + 1, need - 1, cp * 64 + (b - 128), 128, 191)

Decode(bytes) ==
  LET t == Utf8(bytes, 1, 0, 0, 128, 191)
  IN IF Len(t) > 0 /\ t[1] = BOM /\ Len(bytes) >= 3
          /\ SubSeq(bytes, 1, 3) = <<239, 187, 191>>
       THEN Tail(t) ELSE t

\* String.prototype.indexOf: the first index (from 1) of pat in s, 0 if none
IndexOf(s, pat) ==
  LET hits == {i \in 1..(Len(s) - Len(pat) + 1) :
                 SubSeq(s, i, i + Len(pat) - 1) = pat}
  IN IF hits = {} THEN 0 ELSE CHOOSE i \in hits : \A j \in hits : i <= j

\* String.prototype.includes
Includes(s, pat) == IndexOf(s, pat) # 0

\* s.replace(pat, ''): a string pattern replaces its first occurrence only
ReplaceFirst(s, pat) ==
  LET i == IndexOf(s, pat)
  IN IF i = 0 THEN s
     ELSE SubSeq(s, 1, i - 1) \o SubSeq(s, i + Len(pat), Len(s))

\* s.split(/\r\n|\n/): every terminator ends at a line feed, and takes the
\* carriage return before it when there is one
RECURSIVE Split(_)
Split(s) ==
  LET nl == {i \in 1..Len(s) : s[i] = LF}
  IN IF nl = {} THEN <<s>>
     ELSE LET i == CHOOSE k \in nl : \A j \in nl : k <= j
              e == IF i > 1 /\ s[i - 1] = CR THEN i - 2 ELSE i - 1
          IN <<SubSeq(s, 1, e)>> \o Split(SubSeq(s, i + 1, Len(s)))

\* the white space and line terminators String.prototype.trim strips
IsSpace(c) ==
  c \in {9, 10, 11, 12, 13, 32, 160, 5760, 8232, 8233, 8239, 8287, 12288, 65279}
        \cup (8192..8202)

Trim(s) ==
  LET keep == {i \in 1..Len(s) : ~IsSpace(s[i])}
  IN IF keep = {} THEN <<>>
     ELSE SubSeq(s, CHOOSE i \in keep : \A j \in keep : i <= j,
                    CHOOSE i \in keep : \A j \in keep : i >= j)

RECURSIVE ReceivedLines(_)
\* lines 429-433: one 'Received: <trimmed>' entry for every non-blank message
ReceivedLines(messages) ==
  IF messages = <<>> THEN <<>>
  ELSE (IF Trim(Head(messages)) # <<>>
          THEN <<[kind |-> "line", text |-> Trim(Head(messages))]>>
          ELSE <<>>) \o ReceivedLines(Tail(messages))

\* lines 379-387: is there a ready byte anywhere in the chunk
HasReady(bytes) == \E i \in 1..Len(bytes) : bytes[i] = READY_BYTE

\* lines 389-407: the first 'K' or 'E' in byte order, 0 if none
FirstAck(bytes) ==
  LET hits == {i \in 1..Len(bytes) : bytes[i] \in {ACK_BYTE, ERR_BYTE}}
  IN IF hits = {} THEN 0
     ELSE bytes[CHOOSE i \in hits : \A j \in hits : i <= j]

\* one scan that stops at the first 'R', 'K' or 'E' in byte order
SignalOfFirst(bytes) ==
  LET hits == {i \in 1..Len(bytes) :
                 bytes[i] \in {READY_BYTE, ACK_BYTE, ERR_BYTE}}
      b == bytes[CHOOSE i \in hits : \A j \in hits : i <= j]
  IN IF hits = {} THEN "None"
     ELSE IF b = READY_BYTE THEN "Ready"
     ELSE IF b = ACK_BYTE THEN "AckOk" ELSE "AckError"

\* lines 376-409: how the signal scans classify a chunk
SignalOf(bytes) ==
  IF HasReady(bytes) THEN "Ready"
  ELSE IF FirstAck(bytes) = ACK_BYTE THEN "AckOk"
  ELSE IF FirstAck(bytes) = ERR_BYTE THEN "AckError"
  ELSE "None"

\* a text branch that forgets the unfinished line between two chunks
\* (messageBuffer declared inside the callback instead of line 369)
TextBranchNoCarry(buf, bytes) ==
  LET parts == Split(Decode(bytes))
  IN [buffer |-> <<>>,
      log |-> ReceivedLines(SubSeq(parts, 1, Len(parts) - 1)),
      frameLost |-> FALSE]

\* lines 409-434: the text branch of the read callback on buffer buf.
\* buffer: the new messageBuffer, log: the monitor entries in order,
\* frameLost: whether the FRAME_LOST branch ran.
TextBranch(buf, bytes) ==
  LET b1 == buf \o Decode(bytes)
      fl == Includes(b1, FRAME_LOST)
      b2 == IF fl THEN ReplaceFirst(b1, FRAME_LOST) ELSE b1
      iv == Includes(b2, INVALID_CMD)
      b3 == IF iv THEN ReplaceFirst(b2, INVALID_CMD) ELSE b2
      parts == Split(b3)
  IN [buffer |-> parts[Len(parts)],
      log |-> (IF fl THEN <<[kind |-> "framelost", text |-> <<>>]>> ELSE <<>>)
              \o (IF iv THEN <<[kind |-> "invalid", text |-> <<>>]>> ELSE <<>>)
              \o ReceivedLines(SubSeq(parts, 1, Len(parts) - 1)),
      frameLost |-> fl]

\* a callback without the test of line 409: a chunk that held a signal
\* byte goes through the text branch as well
ClassifyKeepsText(buf, bytes) ==
  [signal |-> SignalOf(bytes)] @@ TextBranch(buf, bytes)

\* lines 372-437: what one run of the read callback makes of a chunk
Classify(buf, bytes) ==
  IF SignalOf(bytes) # "None"
    THEN [signal |-> SignalOf(bytes), buffer |-> buf, log |-> <<>>,
          frameLost |-> FALSE]
    ELSE [signal |-> "None"] @@ TextBranch(buf, bytes)


(***************************************************************************)
(* Program constants and the bounds of the model.                          *)
(***************************************************************************)

\* line 65
TRANSFER_TIMEOUT == 15000
\* line 283: the CH341 vendor identifier 0x1a86
CH341_VENDOR == 6790
\* line 682: the pause after START_RTIMAGE
START_DELAY == 100
\* lines 707 and 745: the deadline of the ready wait and of the ack wait
WAIT_TIMEOUT == 500
\* line 655: the pause of clearImage
CLEAR_DELAY == 500
\* line 488: the pause of handleConnectionError before it reconnects
RECOVER_DELAY == 1000

\* sendImageToDevice calls that may be running at once
MaxSends == 2
\* connection flows (handleConnection, handleConnectionError, the device
\* selector) that may be running at once
MaxConns == 1
\* clearImage calls that may be in their pause at once
MaxClears == 1
\* abortTransfer calls that may be waiting for their ABORT write at once
MaxAborts == 2
MaxTries == 2
\* images the application holds (MAX_IMAGES in the source is 6)
MaxImages == 3
\* the largest payload length, in bytes, of a picked image
MaxPayload == 1

SendIds == 1..MaxSends
ConnIds == 1..MaxConns
ClearIds == 1..MaxClears

\* the devices UsbSerial.list may report: two CH341 adapters and a stranger
Devices ==
  { [deviceId |-> 1, vendorId |-> CH341_VENDOR],
    [deviceId |-> 2, vendorId |-> CH341_VENDOR],
    [deviceId |-> 3, vendorId |-> 1027] }

\* an image whose base64 is null or '' (lines 584, 672)
NoData == 0 - 1
\* an image is modelled by the byte length of its decoded payload
PickableImages == {NoData} \cup (1..MaxPayload)

VARIABLES
  \* React state (lines 153-169)
  isDeviceConnected, isConnecting, deviceSelectorVisible, availableDevices,
  uploadedImages, imageLoopActive,
  \* refs (lines 172-178); deviceRef holds a deviceId, 0 for null
  deviceRef, currentImageIndexRef, imageLoopIntervalRef,
  transferInProgressRef, transferAbortedRef, activityAge,
  transferTimeoutCheckerRef,
  \* the callback registered with UsbSerial.read and its messageBuffer
  reader, messageBuffer,
  \* the transport: the deviceId of the open port, 0 when closed
  portOpen,
  \* the asynchronous calls in flight
  conns, sends, clears, aborts,
  \* what the last step did to the outside: the write it handed to the
  \* channel, what the read callback made of its chunk, how a send ended
  last,
  \* a text delivered as two consecutive chunks cut after cut bytes (phase
  \* "half" after the first, "done" after the second), the messageBuffer it
  \* met and the monitor entries the two runs of the callback made
  exp

vars ==
  <<isDeviceConnected, isConnecting, deviceSelectorVisible, availableDevices,
    uploadedImages, imageLoopActive, deviceRef, currentImageIndexRef,
    imageLoopIntervalRef, transferInProgressRef, transferAbortedRef,
    activityAge, transferTimeoutCheckerRef, reader, messageBuffer, portOpen,
    conns, sends, clears, aborts, last, exp>>

reactVars ==
  <<isDeviceConnected, isConnecting, deviceSelectorVisible, availableDevices,
    uploadedImages, imageLoopActive>>
loopVars == <<currentImageIndexRef, imageLoopIntervalRef>>
transferVars == <<transferInProgressRef, transferAbortedRef>>
readVars == <<reader, messageBuffer>>

NoInterval == [set |-> FALSE, images |-> <<>>]
NoReader == [registered |-> FALSE, isDeviceConnected |-> FALSE]
\* tries counts the calls of connectToDevice that handleConnectionError has
\* made since the failure that started the flow
IdleConn ==
  [pc |-> "idle", kind |-> "none", cap |-> FALSE, dev |-> 0, t |-> 0,
   tries |-> 0]
IdleSend ==
  [pc |-> "idle", owner |-> "none", images |-> <<>>, idx |-> 0, n |-> 0,
   t |-> 0, err |-> FALSE, ready |-> "no", sawAck |-> FALSE,
   sentLost |-> FALSE, halted |-> FALSE, sawErr |-> FALSE]
IdleClear == [pc |-> "idle", t |-> 0]
NoExp == [phase |-> "none", buf0 |-> <<>>, text |-> <<>>, cut |-> 0, log |-> <<>>]

\* line 177: lastTransferActivityRef is kept as the time since it was
\* stamped: 0 (no more than TRANSFER_TIMEOUT ago) or TRANSFER_TIMEOUT + 1.
Fresh == 0
Stale == TRANSFER_TIMEOUT + 1

\* lines 151-178: the state after the component is mounted
Init ==
  /\ isDeviceConnected = FALSE
  /\ isConnecting = FALSE
  /\ deviceSelectorVisible = FALSE
  /\ availableDevices = {}
  /\ uploadedImages = <<>>
  /\ imageLoopActive = FALSE
  /\ deviceRef = 0
  /\ currentImageIndexRef = 0
  /\ imageLoopIntervalRef = NoInterval
  /\ transferInProgressRef = FALSE
  /\ transferAbortedRef = FALSE
  /\ activityAge = Fresh
  /\ transferTimeoutCheckerRef = FALSE
  /\ reader = NoReader
  /\ messageBuffer = <<>>
  /\ portOpen = 0
  /\ conns = [c \in ConnIds |-> IdleConn]
  /\ sends = [s \in SendIds |-> IdleSend]
  /\ clears = [c \in ClearIds |-> IdleClear]
  /\ aborts = 0
  /\ last = [write |-> "none", call |-> "none", text |-> <<>>,
             cmd |-> [id |-> "none", value |-> <<>>],
             read |-> [done |-> FALSE, chunk |-> <<>>, before |-> <<>>,
                      signal |-> "None", log |-> <<>>],
             end |-> [result |-> "none", ready |-> "no", sawAck |-> FALSE,
                      sentLost |-> FALSE, idx |-> 0, len |-> 0,
                      halted |-> FALSE, n |-> 0, sawErr |-> FALSE],
             conn |-> [event |-> "none", kind |-> "none", listed |-> {},
                       dev |-> 0]]
  /\ exp = NoExp

FreeConns == {c \in ConnIds : conns[c].pc = "idle"}
FreeSends == {s \in SendIds : sends[s].pc = "idle"}
FreeClears == {c \in ClearIds : clears[c].pc = "idle"}
Lowest(S) == CHOOSE x \in S : \A y \in S : x <= y

\* UsbSerial.write / writeHexString to device dev reaches the channel only
\* when that device's port is open
CanWrite(dev) == dev # 0 /\ portOpen = dev

\* lines 818-825 (and the same lines in disconnectDevice 345-349 and
\* executeCommand 512-517): the loop state after the interval is cleared
StoppedActive == IF imageLoopIntervalRef.set THEN FALSE ELSE imageLoopActive

\* the loop is told to stop (lines 345-349, 511-517, 818-825) while the
\* initial send of startImageLoop is awaited (line 808): that send notes it
Halted ==
  [s \in SendIds |->
     IF sends[s].owner = "start" THEN [sends[s] EXCEPT !.halted = TRUE]
     ELSE sends[s]]


\* last.call: the write call the step made, by its place in the code;
\* last.write: that call when it reached the channel; last.text: the string
\* a command's write was called with; last.cmd: the command field
\* executeCommand ran on and its value; last.read: the chunk the read callback ran on, the messageBuffer
\* it met, the signal and the monitor entries it made; last.end: the
\* result of the send that ended, with what the device had sent it;
\* last.conn: the call of the transport that settled in a connection flow
\* (close, list or open), how it settled, the flow it belongs to, the
\* devices a list returned and the device an open was called on
NoWrite == "none"
NoRead ==
  [done |-> FALSE, chunk |-> <<>>, before |-> <<>>, signal |-> "None",
   log |-> <<>>]
NoEnd ==
  [result |-> "none", ready |-> "no", sawAck |-> FALSE, sentLost |-> FALSE,
   idx |-> 0, len |-> 0, halted |-> FALSE, n |-> 0, sawErr |-> FALSE]
NoCmd == [id |-> "none", value |-> <<>>]
NoConn == [event |-> "none", kind |-> "none", listed |-> {}, dev |-> 0]
Silent ==
  [write |-> NoWrite, call |-> NoWrite, text |-> <<>>, cmd |-> NoCmd,
   read |-> NoRead, end |-> NoEnd, conn |-> NoConn]
\* the write call op was made and reached the channel
Wrote(op) == [Silent EXCEPT !.write = op, !.call = op]
\* the write call op was made and rejects
Tried(op) == [Silent EXCEPT !.call = op]

(***************************************************************************)
(* Connection lifecycle.  A flow captures isDeviceConnected of the render  *)
(* whose handler started it (cap): startReading tests that value.          *)
(***************************************************************************)

\* lines 1129-1134: the device selector is a modal over the screen; while
\* it is shown, no button under it can be pressed
ScreenFree == ~deviceSelectorVisible

\* a filter that lets every listed device through
AnyDevice(devices) == {d.deviceId : d \in devices}

\* line 283: the deviceIds of the listed devices with the CH341 vendor id
Ch341Devices(devices) ==
  {d.deviceId : d \in {x \in devices : x.vendorId = CH341_VENDOR}}

\* what a settled transport call of flow c leaves in last.conn
ConnEvent(c, event, listed) ==
  [Silent EXCEPT !.conn = [event |-> event, kind |-> conns[c].kind,
                           listed |-> listed, dev |-> conns[c].dev]]

\* lines 259-266, 278-282: the Connect button while disconnected, up to the
\* call of UsbSerial.list
ConnectPress ==
  /\ ScreenFree
  /\ ~isConnecting /\ ~isDeviceConnected
  /\ FreeConns # {}
  /\ isConnecting' = TRUE
  /\ conns' = [conns EXCEPT ![Lowest(FreeConns)] =
                 [IdleConn EXCEPT !.pc = "list", !.kind = "button"]]
  /\ last' = Silent
  /\ UNCHANGED <<isDeviceConnected, deviceSelectorVisible, availableDevices,
                 uploadedImages, imageLoopActive, deviceRef, loopVars,
                 transferVars, activityAge, transferTimeoutCheckerRef,
                 readVars, portOpen, sends, clears, aborts, exp>>

\* lines 259-268, 341-353: the Disconnect button, up to the call of
\* UsbSerial.close (or to the end when deviceRef is null)
DisconnectPress ==
  /\ ScreenFree
  /\ ~isConnecting /\ isDeviceConnected
  /\ imageLoopIntervalRef' = NoInterval
  /\ imageLoopActive' = StoppedActive
  /\ IF deviceRef # 0
       THEN /\ FreeConns # {}
            /\ isConnecting' = TRUE
            /\ conns' = [conns EXCEPT ![Lowest(FreeConns)] =
                           [IdleConn EXCEPT !.pc = "close", !.kind = "button",
                                            !.cap = TRUE, !.dev = deviceRef]]
            /\ UNCHANGED isDeviceConnected
       ELSE /\ isDeviceConnected' = FALSE
            /\ UNCHANGED <<isConnecting, conns>>
  /\ sends' = Halted
  /\ last' = Silent
  /\ UNCHANGED <<deviceSelectorVisible, availableDevices, uploadedImages,
                 deviceRef, currentImageIndexRef, transferVars, activityAge,
                 transferTimeoutCheckerRef, readVars, portOpen, clears,
                 aborts, exp>>

\* lines 482-486, 341-353: the continuation of a rejected write: the catch
\* calls handleConnectionError, which runs disconnectDevice(false) up to the
\* call of UsbSerial.close
RecoverStart(c) ==
  /\ conns[c].pc = "recover"
  /\ imageLoopIntervalRef' = NoInterval
  /\ imageLoopActive' = StoppedActive
  /\ IF deviceRef # 0
       THEN /\ conns' = [conns EXCEPT ![c].pc = "close", ![c].dev = deviceRef]
            /\ UNCHANGED isDeviceConnected
       ELSE /\ isDeviceConnected' = FALSE
            /\ conns' = [conns EXCEPT ![c].pc = "delay", ![c].t = RECOVER_DELAY]
  /\ sends' = Halted
  /\ last' = Silent
  /\ UNCHANGED <<isConnecting, deviceSelectorVisible, availableDevices,
                 uploadedImages, deviceRef, currentImageIndexRef, transferVars,
                 activityAge, transferTimeoutCheckerRef, readVars, portOpen,
                 clears, aborts, exp>>

\* lines 353-362: UsbSerial.close settles.  A closed port delivers no more
\* chunks to the registered callback.
CloseDone(c) ==
  /\ conns[c].pc = "close"
  /\ \E ok \in BOOLEAN :
       IF ok
         THEN /\ portOpen' = IF portOpen = conns[c].dev THEN 0 ELSE portOpen
              /\ last' = ConnEvent(c, "closed", {})
              /\ reader' = IF portOpen = conns[c].dev THEN NoReader ELSE reader
              /\ messageBuffer' = IF portOpen = conns[c].dev THEN <<>> ELSE messageBuffer
              /\ deviceRef' = 0
              /\ isDeviceConnected' = FALSE
              /\ IF conns[c].kind = "button"
                   THEN /\ conns' = [conns EXCEPT ![c] = IdleConn]
                        /\ isConnecting' = FALSE
                   \* lines 486-488: handleConnectionError goes on to its pause
                   ELSE /\ conns' = [conns EXCEPT ![c].pc = "delay",
                                                  ![c].t = RECOVER_DELAY]
                        /\ UNCHANGED isConnecting
         \* lines 359-361 rethrow: handleConnection (270-274) or
         \* handleConnectionError (495-502) catches, and the flow ends
         ELSE /\ conns' = [conns EXCEPT ![c] = IdleConn]
              /\ isConnecting' = IF conns[c].kind = "button" THEN FALSE ELSE isConnecting
              /\ last' = ConnEvent(c, "closeFailed", {})
              /\ UNCHANGED <<portOpen, reader, messageBuffer, deviceRef,
                             isDeviceConnected>>
  /\ UNCHANGED <<deviceSelectorVisible, availableDevices, uploadedImages,
                 imageLoopActive, loopVars, transferVars, activityAge,
                 transferTimeoutCheckerRef, sends, clears, aborts, exp>>

\* lines 488-490, 278-282: the pause of handleConnectionError is over and
\* connectToDevice calls UsbSerial.list
DelayDone(c) ==
  /\ conns[c].pc = "delay" /\ conns[c].t = 0
  /\ conns' = [conns EXCEPT ![c].pc = "list", ![c].tries = @ + 1]
  /\ last' = Silent
  /\ UNCHANGED <<reactVars, deviceRef, loopVars, transferVars, activityAge,
                 transferTimeoutCheckerRef, readVars, portOpen, sends, clears,
                 aborts, exp>>

\* lines 282-299: UsbSerial.list settles; and lines 303-322 up to the call
\* of UsbSerial.open when exactly one CH341 device is listed
ListDone(c) ==
  /\ conns[c].pc = "list"
  /\ \/ \* the list fails (297-299)
        /\ conns' = [conns EXCEPT ![c] = IdleConn]
        /\ isConnecting' = IF conns[c].kind = "button" THEN FALSE ELSE isConnecting
        /\ last' = ConnEvent(c, "listFailed", {})
        /\ UNCHANGED <<deviceRef, availableDevices, deviceSelectorVisible>>
     \/ \* no CH341 device is listed (285-287)
        \E devices \in SUBSET Devices :
          /\ Ch341Devices(devices) = {}
          /\ conns' = [conns EXCEPT ![c] = IdleConn]
          /\ isConnecting' = IF conns[c].kind = "button" THEN FALSE ELSE isConnecting
          /\ last' = ConnEvent(c, "noDevice", devices)
          /\ UNCHANGED <<deviceRef, availableDevices, deviceSelectorVisible>>
     \/ \* one CH341 device (288-290, 314-315)
        \E devices \in SUBSET Devices :
          /\ Cardinality(Ch341Devices(devices)) = 1
          /\ deviceRef' = CHOOSE d \in Ch341Devices(devices) : TRUE
          /\ conns' = [conns EXCEPT ![c].pc = "open", ![c].dev = deviceRef']
          /\ last' = ConnEvent(c, "one", devices)
          /\ UNCHANGED <<isConnecting, availableDevices, deviceSelectorVisible>>
     \/ \* several CH341 devices (291-296)
        \E devices \in SUBSET Devices :
          /\ Cardinality(Ch341Devices(devices)) > 1
          /\ availableDevices' = Ch341Devices(devices)
          /\ deviceSelectorVisible' = TRUE
          /\ conns' = [conns EXCEPT ![c] = IdleConn]
          /\ isConnecting' = IF conns[c].kind = "button" THEN FALSE ELSE isConnecting
          /\ last' = ConnEvent(c, "several", devices)
          /\ UNCHANGED deviceRef
  /\ UNCHANGED <<isDeviceConnected, uploadedImages, imageLoopActive, loopVars,
                 transferVars, activityAge, transferTimeoutCheckerRef, readVars,
                 portOpen, sends, clears, aborts, exp>>

\* lines 1142-1145, 303-322: a device is picked in the selector, up to the
\* call of UsbSerial.open
SelectPress(d) ==
  /\ deviceSelectorVisible /\ d \in availableDevices
  /\ FreeConns # {}
  /\ deviceSelectorVisible' = FALSE
  /\ deviceRef' = d
  /\ conns' = [conns EXCEPT ![Lowest(FreeConns)] =
                 [IdleConn EXCEPT !.pc = "open", !.kind = "select",
                                  !.cap = isDeviceConnected, !.dev = d]]
  /\ last' = Silent
  /\ UNCHANGED <<isDeviceConnected, isConnecting, availableDevices,
                 uploadedImages, imageLoopActive, loopVars, transferVars,
                 activityAge, transferTimeoutCheckerRef, readVars, portOpen,
                 sends, clears, aborts, exp>>

\* lines 1133, 1150-1152: the selector is dismissed
SelectorCancel ==
  /\ deviceSelectorVisible
  /\ deviceSelectorVisible' = FALSE
  /\ last' = Silent
  /\ UNCHANGED <<isDeviceConnected, isConnecting, availableDevices,
                 uploadedImages, imageLoopActive, deviceRef, loopVars,
                 transferVars, activityAge, transferTimeoutCheckerRef, readVars,
                 portOpen, conns, sends, clears, aborts, exp>>

\* a catch that leaves deviceRef as line 314 set it
OpenRejectedKeepsDevice(c) ==
  /\ conns' = [conns EXCEPT ![c] = IdleConn]
  /\ isConnecting' = IF conns[c].kind = "button" THEN FALSE ELSE isConnecting
  /\ last' = ConnEvent(c, "openFailed", {})
  /\ UNCHANGED <<deviceRef, isDeviceConnected, portOpen, reader,
                 messageBuffer, transferTimeoutCheckerRef,
                 imageLoopIntervalRef, imageLoopActive>>

\* lines 333-337: UsbSerial.open rejects: the catch clears deviceRef and
\* throws 'Connection failed'; whoever called connectToSelectedDevice
\* catches it (270-274, 297-299 and 495-500, or nobody at 1145)
OpenRejected(c) ==
  /\ deviceRef' = 0
  /\ conns' = [conns EXCEPT ![c] = IdleConn]
  /\ isConnecting' = IF conns[c].kind = "button" THEN FALSE ELSE isConnecting
  /\ last' = ConnEvent(c, "openFailed", {})
  /\ UNCHANGED <<isDeviceConnected, portOpen, reader, messageBuffer,
                 transferTimeoutCheckerRef, imageLoopIntervalRef,
                 imageLoopActive>>

\* lines 315-337: UsbSerial.open settles; on success startReading (366-445)
\* runs with the captured isDeviceConnected and is not awaited
OpenDone(c) ==
  /\ conns[c].pc = "open"
  /\ \/ OpenRejected(c)
     \/ \* open resolves; startReading returns at its guard (367)
        /\ deviceRef = 0 \/ ~conns[c].cap
        /\ portOpen' = conns[c].dev
        /\ isDeviceConnected' = TRUE
        /\ last' = ConnEvent(c, "opened", {})
        /\ conns' = [conns EXCEPT ![c] = IdleConn]
        /\ isConnecting' = IF conns[c].kind = "button" THEN FALSE ELSE isConnecting
        /\ UNCHANGED <<deviceRef, reader, messageBuffer,
                       transferTimeoutCheckerRef, imageLoopIntervalRef,
                       imageLoopActive>>
     \/ \* open resolves; the callback is registered with a fresh
        \* messageBuffer and the timeout checker is started (369-440)
        /\ deviceRef # 0 /\ conns[c].cap
        /\ portOpen' = conns[c].dev
        /\ isDeviceConnected' = TRUE
        /\ last' = ConnEvent(c, "opened", {})
        /\ reader' = [registered |-> TRUE, isDeviceConnected |-> conns[c].cap]
        /\ messageBuffer' = <<>>
        /\ transferTimeoutCheckerRef' = TRUE
        /\ conns' = [conns EXCEPT ![c] = IdleConn]
        /\ isConnecting' = IF conns[c].kind = "button" THEN FALSE ELSE isConnecting
        /\ UNCHANGED <<deviceRef, imageLoopIntervalRef, imageLoopActive>>
     \/ \* open resolves; UsbSerial.read throws, and the catch (441-444)
        \* calls handleConnectionError, which runs up to UsbSerial.close
        /\ deviceRef # 0 /\ conns[c].cap
        /\ conns[c].tries < MaxTries
        /\ portOpen' = conns[c].dev
        /\ isDeviceConnected' = TRUE
        /\ last' = ConnEvent(c, "opened", {})
        /\ imageLoopIntervalRef' = NoInterval
        /\ imageLoopActive' = StoppedActive
        /\ conns' = [conns EXCEPT ![c] =
                       [pc |-> "close", kind |-> "recover", cap |-> conns[c].cap,
                        dev |-> deviceRef, t |-> 0, tries |-> conns[c].tries]]
        /\ isConnecting' = IF conns[c].kind = "button" THEN FALSE ELSE isConnecting
        /\ UNCHANGED <<deviceRef, reader, messageBuffer, transferTimeoutCheckerRef>>
  /\ UNCHANGED <<deviceSelectorVisible, availableDevices, uploadedImages,
                 currentImageIndexRef, transferVars, activityAge, sends, clears,
                 aborts, exp>>


(***************************************************************************)
(* Commands, images and the image loop.  A handler started from the UI     *)
(* sees the React state of the current render; the guards below are the    *)
(* disabled props of the buttons (lines 903, 1027-1031, 1041, 1052-1054,   *)
(* 1075) together with the handler's own tests.                            *)
(***************************************************************************)

NoMatch == 0 - 1
\* "SCREENTIME**", a space, and the digits of a number
SCREENTIME == <<83, 67, 82, 69, 69, 78, 84, 73, 77, 69, 42, 42>>
SPACE == 32
IsDigit(c) == c \in 48..57
ScreenTime(digits) == SCREENTIME \o digits

RECURSIVE ParseInt(_)
\* line 535: Number.parseInt(digits, 10) of a run of decimal digits
ParseInt(digits) ==
  IF digits = <<>> THEN 0
  ELSE 10 * ParseInt(SubSeq(digits, 1, Len(digits) - 1))
         + (digits[Len(digits)] - 48)

\* lines 527-535: commandValue.match(/SCREENTIME\*\*(\d+)/) and the number
\* in its group: the leftmost place where the literal is followed by a
\* digit, and the longest run of digits there; NoMatch when there is none
TimeMatch(s) ==
  LET n == Len(SCREENTIME)
      at == {i \in 1..Len(s) :
               /\ i + n <= Len(s)
               /\ SubSeq(s, i, i + n - 1) = SCREENTIME
               /\ IsDigit(s[i + n])}
  IN IF at = {} THEN NoMatch
     ELSE LET from == Lowest(at) + n
              runs == {j \in from..Len(s) : \A k \in from..j : IsDigit(s[k])}
              to == CHOOSE j \in runs : \A k \in runs : k <= j
          IN ParseInt(SubSeq(s, from, to))

\* what the user can have typed into the screen time field: the literal
\* with the numbers 0, 29, 30, 45, 300, 301, 3000 and 030, with no digits,
\* with a sign, inside other text, after a literal without digits, with
\* spaces around it, and nothing but spaces
TimeValues ==
  {ScreenTime(d) : d \in {<<48>>, <<50, 57>>, <<51, 48>>, <<52, 53>>,
                          <<51, 48, 48>>, <<51, 48, 49>>, <<51, 48, 48, 48>>,
                          <<48, 51, 48>>, <<>>, <<45, 51, 48>>}}
    \cup {<<65>> \o ScreenTime(<<52, 53>>) \o <<65>>,
          <<65>> \o ScreenTime(<<50, 57>>) \o <<65>>,
          SCREENTIME \o ScreenTime(<<51, 48, 48>>),
          <<SPACE>> \o ScreenTime(<<51, 48>>) \o <<SPACE, LF>>,
          <<SPACE>> \o ScreenTime(<<51, 48, 49>>) \o <<SPACE>>,
          <<>>, <<SPACE, SPACE>>, <<65>>}
\* and into a text field
TextValues == {<<>>, <<SPACE>>, <<65>>, <<SPACE, 65, SPACE>>, ScreenTime(<<50, 57>>)}

CommandInputs ==
  [id : {"textDisplayCommand"}, value : TextValues]
    \cup [id : {"screentimeCommand"}, value : TimeValues]

\* line 519: commandValues[commandId]?.trim()
CommandValue(cmd) == Trim(cmd.value)

\* executeCommand without the range test of lines 526-543
CommandAcceptedAnyTime(cmd) == CommandValue(cmd) # <<>>

\* lines 521-543: the local validation of executeCommand
CommandAccepted(cmd) ==
  /\ CommandValue(cmd) # <<>>
  /\ cmd.id = "screentimeCommand" =>
       LET timeValue == TimeMatch(CommandValue(cmd))
       IN /\ timeValue # NoMatch
          /\ ~(timeValue < 30 \/ timeValue > 300)

\* line 546: the string executeCommand calls UsbSerial.write with
CommandText(cmd) == CommandValue(cmd) \o <<LF>>


\* a write that rejects makes the caller's catch run handleConnectionError
\* later, as a connection flow of its own
SpawnRecover ==
  [conns EXCEPT ![Lowest(FreeConns)] =
     [IdleConn EXCEPT !.pc = "recover", !.kind = "recover",
                      !.cap = isDeviceConnected]]

\* lines 506-552: executeCommand, up to the call of UsbSerial.write
CommandPress(cmd) ==
  /\ ScreenFree
  /\ isDeviceConnected /\ deviceRef # 0
  /\ imageLoopIntervalRef' = NoInterval
  /\ imageLoopActive' = StoppedActive
  /\ sends' = Halted
  /\ IF ~CommandAccepted(cmd)
       THEN /\ last' = [Silent EXCEPT !.cmd = cmd]
            /\ UNCHANGED conns
       ELSE \/ /\ CanWrite(deviceRef)
               /\ last' = [Wrote("command") EXCEPT !.cmd = cmd,
                                                    !.text = CommandText(cmd)]
               /\ UNCHANGED conns
            \/ /\ FreeConns # {}
               /\ last' = [Tried("command") EXCEPT !.cmd = cmd,
                                                    !.text = CommandText(cmd)]
               /\ conns' = SpawnRecover
  /\ UNCHANGED <<isDeviceConnected, isConnecting, deviceSelectorVisible,
                 availableDevices, uploadedImages, deviceRef,
                 currentImageIndexRef, transferVars, activityAge,
                 transferTimeoutCheckerRef, readVars, portOpen, clears,
                 aborts, exp>>

\* lines 645-653, 661-667: clearImage, up to the pause after its write
ClearImagePress ==
  /\ ScreenFree
  /\ isDeviceConnected /\ deviceRef # 0
  /\ \/ /\ CanWrite(deviceRef)
        /\ FreeClears # {}
        /\ last' = Wrote("clearImage")
        /\ clears' = [clears EXCEPT ![Lowest(FreeClears)] =
                        [pc |-> "sleep", t |-> CLEAR_DELAY]]
        /\ UNCHANGED conns
     \/ /\ FreeConns # {}
        /\ last' = Tried("clearImage")
        /\ conns' = SpawnRecover
        /\ UNCHANGED clears
  /\ UNCHANGED <<reactVars, deviceRef, loopVars, transferVars, activityAge,
                 transferTimeoutCheckerRef, readVars, portOpen, sends, aborts,
                 exp>>

\* lines 655-660: the pause of clearImage is over
ClearDone(c) ==
  /\ clears[c].pc = "sleep" /\ clears[c].t = 0
  /\ transferInProgressRef' = FALSE
  /\ transferAbortedRef' = FALSE
  /\ clears' = [clears EXCEPT ![c] = IdleClear]
  /\ last' = Silent
  /\ UNCHANGED <<reactVars, deviceRef, loopVars, activityAge,
                 transferTimeoutCheckerRef, readVars, portOpen, conns, sends,
                 aborts, exp>>

\* lines 623-642: clearAllImages, up to the call of UsbSerial.write
ClearAllPress ==
  /\ ScreenFree
  /\ isDeviceConnected /\ uploadedImages # <<>> /\ deviceRef # 0
  /\ imageLoopIntervalRef' = NoInterval
  /\ imageLoopActive' = StoppedActive
  /\ uploadedImages' = <<>>
  /\ \/ /\ CanWrite(deviceRef)
        /\ last' = Wrote("clearAllImages")
        /\ UNCHANGED conns
     \/ /\ FreeConns # {}
        /\ last' = Tried("clearAllImages")
        /\ conns' = SpawnRecover
  /\ UNCHANGED <<isDeviceConnected, isConnecting, deviceSelectorVisible,
                 availableDevices, deviceRef, currentImageIndexRef,
                 transferVars, activityAge, transferTimeoutCheckerRef,
                 readVars, portOpen, sends, clears, aborts, exp>>

\* lines 555-607: an image is picked and appended
PickImage(img) ==
  /\ ScreenFree
  /\ isDeviceConnected
  /\ Len(uploadedImages) < MaxImages
  /\ uploadedImages' = Append(uploadedImages, img)
  /\ last' = Silent
  /\ UNCHANGED <<isDeviceConnected, isConnecting, deviceSelectorVisible,
                 availableDevices, imageLoopActive, deviceRef, loopVars,
                 transferVars, activityAge, transferTimeoutCheckerRef,
                 readVars, portOpen, conns, sends, clears, aborts, exp>>

\* lines 610-620: removeImage(index), index counted from 0
RemoveImage(index) ==
  /\ ScreenFree
  /\ isDeviceConnected
  /\ index < Len(uploadedImages)
  /\ uploadedImages' = SubSeq(uploadedImages, 1, index)
                         \o SubSeq(uploadedImages, index + 2, Len(uploadedImages))
  /\ IF imageLoopActive /\ Len(uploadedImages) <= 1
       THEN /\ imageLoopIntervalRef' = NoInterval
            /\ imageLoopActive' = StoppedActive
       ELSE UNCHANGED <<imageLoopIntervalRef, imageLoopActive>>
  /\ last' = Silent
  /\ UNCHANGED <<isDeviceConnected, isConnecting, deviceSelectorVisible,
                 availableDevices, deviceRef, currentImageIndexRef,
                 transferVars, activityAge, transferTimeoutCheckerRef,
                 readVars, portOpen, conns, sends, clears, aborts, exp>>

\* how a send that has ended is reported
\* last.end.n: the image the send was called on: its byte length, NoData,
\* or 0 when uploadedImages[idx] was undefined
Ended(result, snd) ==
  [Silent EXCEPT
     !.end = [result |-> result, ready |-> snd.ready, sawAck |-> snd.sawAck,
              sentLost |-> snd.sentLost, idx |-> snd.idx,
              len |-> Len(snd.images), halted |-> snd.halted,
              n |-> snd.n, sawErr |-> snd.sawErr]]

\* lines 780-806 with 671-681: displayNextImage for the closure that holds
\* images, up to the call of UsbSerial.write for START_RTIMAGE.  ivl and
\* active are imageLoopIntervalRef and imageLoopActive as the caller left
\* them; a start sets the index to 0 first (line 777).
DisplayNextImage(owner, images, ivl, active) ==
  LET idx == IF owner = "start" THEN 0 ELSE currentImageIndexRef
      \* uploadedImages[idx] is undefined (787), or sendImageToDevice throws
      \* at its guard (672-674)
      throws == IF idx >= Len(images) THEN TRUE
                ELSE deviceRef = 0 \/ images[idx + 1] = NoData
  IN /\ currentImageIndexRef' = idx
     /\ IF throws
          \* the catch (799-805) stops the loop; startImageLoop then
          \* installs the interval all the same (810-813)
          THEN /\ imageLoopIntervalRef' =
                    IF owner = "start" THEN [set |-> TRUE, images |-> images]
                    ELSE NoInterval
               /\ imageLoopActive' = IF ivl.set THEN FALSE ELSE active
               /\ last' = Ended("NotConnected",
                                [IdleSend EXCEPT
                                   !.n = IF idx >= Len(images) THEN 0
                                         ELSE images[idx + 1]])
               /\ UNCHANGED <<sends, transferVars>>
          ELSE /\ FreeSends # {}
               /\ imageLoopIntervalRef' = ivl
               /\ imageLoopActive' = active
               /\ transferInProgressRef' = TRUE
               /\ transferAbortedRef' = FALSE
               /\ \E ok \in BOOLEAN :
                    /\ ok => CanWrite(deviceRef)
                    /\ sends' = [sends EXCEPT ![Lowest(FreeSends)] =
                                   [IdleSend EXCEPT !.pc = "w_start",
                                                    !.owner = owner,
                                                    !.images = images,
                                                    !.idx = idx,
                                                    !.n = images[idx + 1],
                                                    !.err = ~ok]]
                    /\ last' = IF ok THEN Wrote("START_RTIMAGE")
                               ELSE Tried("START_RTIMAGE")

\* lines 771-808: the Start Loop button, up to the first await of the
\* initial displayNextImage
StartLoopPress ==
  /\ ScreenFree
  /\ isDeviceConnected /\ uploadedImages # <<>> /\ ~imageLoopActive
  /\ DisplayNextImage("start", uploadedImages, NoInterval, TRUE)
  /\ UNCHANGED <<isDeviceConnected, isConnecting, deviceSelectorVisible,
                 availableDevices, uploadedImages, deviceRef, activityAge,
                 transferTimeoutCheckerRef, readVars, portOpen, conns, clears,
                 aborts, exp>>

\* lines 818-825: the Stop Loop button
StopLoopPress ==
  /\ ScreenFree
  /\ isDeviceConnected /\ imageLoopActive /\ uploadedImages # <<>>
  /\ imageLoopIntervalRef' = NoInterval
  /\ imageLoopActive' = StoppedActive
  /\ sends' = Halted
  /\ last' = Silent
  /\ UNCHANGED <<isDeviceConnected, isConnecting, deviceSelectorVisible,
                 availableDevices, uploadedImages, deviceRef,
                 currentImageIndexRef, transferVars, activityAge,
                 transferTimeoutCheckerRef, readVars, portOpen, conns,
                 clears, aborts, exp>>

\* lines 810-813: the interval fires displayNextImage of the closure that
\* installed it.  That closure's isDeviceConnected is true and its
\* uploadedImages non-empty (line 772), so the test of line 781 passes.
\* The period is not measured: a write of the previous send may take any
\* time, so the next tick may find any of its steps.
LoopTick ==
  /\ imageLoopIntervalRef.set
  /\ DisplayNextImage("tick", imageLoopIntervalRef.images, imageLoopIntervalRef,
                      imageLoopActive)
  /\ UNCHANGED <<isDeviceConnected, isConnecting, deviceSelectorVisible,
                 availableDevices, uploadedImages, deviceRef, activityAge,
                 transferTimeoutCheckerRef, readVars, portOpen, conns, clears,
                 aborts, exp>>


(***************************************************************************)
(* sendImageToDevice (lines 671-768).  pc names the await a call is at:    *)
(* w_start, w_header, w_payload (a write), sleep (line 682), ready_wait    *)
(* (704-723), ack_wait (742-761).  Beside the code's state a send records  *)
(* what the device sent it: ready ("clean": a ready chunk came during the  *)
(* ready wait, before its deadline and with no abort pending; "wait": one  *)
(* came during the ready wait; "early": only while the header write was    *)
(* settling), sawAck (a success ack after the payload write was called),   *)
(* sentLost (a chunk holding FRAME_LOST\r\n during the ack wait), sawErr   *)
(* (an error ack came during the ready wait or the ack wait, before the     *)
(* deadline).                                                              *)
(***************************************************************************)

\* a catch that rethrows without clearing transferInProgressRef
SendFailsKeepsBusy(s, result) ==
  /\ imageLoopIntervalRef' =
       IF sends[s].owner = "start"
         THEN [set |-> TRUE, images |-> sends[s].images]
         ELSE NoInterval
  /\ imageLoopActive' = StoppedActive
  /\ sends' = [sends EXCEPT ![s] = IdleSend]
  /\ last' = Ended(result, sends[s])
  /\ UNCHANGED <<transferVars, currentImageIndexRef>>

\* lines 764-767 and 799-813: a send fails.  Its catch clears
\* transferInProgressRef, displayNextImage's catch stops the loop, and a
\* startImageLoop that awaited it installs the interval
SendFails(s, result) ==
  /\ transferInProgressRef' = FALSE
  /\ imageLoopIntervalRef' =
       IF sends[s].owner = "start"
         THEN [set |-> TRUE, images |-> sends[s].images]
         ELSE NoInterval
  /\ imageLoopActive' = StoppedActive
  /\ sends' = [sends EXCEPT ![s] = IdleSend]
  /\ last' = Ended(result, sends[s])
  /\ UNCHANGED <<transferAbortedRef, currentImageIndexRef>>

\* lines 763, 790-798, 810-813: a send succeeds.  displayNextImage advances
\* the index modulo the length of its closure's uploadedImages
SendSucceeds(s) ==
  /\ currentImageIndexRef' = (currentImageIndexRef + 1) % Len(sends[s].images)
  /\ imageLoopIntervalRef' =
       IF sends[s].owner = "start"
         THEN [set |-> TRUE, images |-> sends[s].images]
         ELSE imageLoopIntervalRef
  /\ sends' = [sends EXCEPT ![s] = IdleSend]
  /\ last' = Ended("ok", sends[s])
  /\ UNCHANGED <<transferVars, imageLoopActive>>

\* line 64: FRAME_MAGIC = 0xaa55cc33, kept as its two 16-bit halves (0xaa55
\* and 0xcc33): a 32-bit unsigned value is the record of its halves
FRAME_MAGIC == [hi |-> 43605, lo |-> 52275]

\* line 691: binaryData.length as a 32-bit unsigned value
Word32(n) == [hi |-> (n \div 65536) % 65536, lo |-> n % 65536]

\* DataView.setUint32(offset, value, false): the four bytes, big-endian
SetUint32BE(w) == <<w.hi \div 256, w.hi % 256, w.lo \div 256, w.lo % 256>>

\* lines 690-691: DataView.setUint32(offset, value, true): the four bytes
\* of the value, least significant first
SetUint32LE(w) == <<w.lo % 256, w.lo \div 256, w.hi % 256, w.hi \div 256>>

\* the character of a hex digit, lower case: '0' is 48 and 'a' is 97
HexDigit(d) == IF d < 10 THEN 48 + d ELSE 87 + d

\* line 696: Buffer.toString('hex'): two digits for every byte
ToHex(bytes) ==
  [i \in 1..(2 * Len(bytes)) |->
     HexDigit(IF i % 2 = 1 THEN bytes[(i + 1) \div 2] \div 16
              ELSE bytes[i \div 2] % 16)]

\* lines 687-697: the string writeHexString is called with for a payload of
\* n bytes
HeaderHex(n) == ToHex(SetUint32LE(FRAME_MAGIC) \o SetUint32LE(Word32(n)))

\* a write of send s to deviceRef: a null deviceRef throws at .deviceId
\* (lines 695, 730), a write that reaches the channel is recorded, and
\* err tells whether the write will reject
SendWrites(s, op, text, next) ==
  \E ok \in BOOLEAN :
    /\ ok => CanWrite(deviceRef)
    /\ sends' = [sends EXCEPT ![s].pc = next, ![s].err = ~ok, ![s].t = 0]
    /\ last' = [(IF ok THEN Wrote(op) ELSE Tried(op)) EXCEPT !.text = text]

\* lines 680-682, 694-701, 729-736: a write of the send settles
SendWriteDone(s) ==
  /\ sends[s].pc \in {"w_start", "w_header", "w_payload"}
  /\ IF sends[s].err
       THEN SendFails(s, "WriteError")
       ELSE /\ sends' = [sends EXCEPT
                 ![s].pc = CASE sends[s].pc = "w_start" -> "sleep"
                             [] sends[s].pc = "w_header" -> "ready_wait"
                             [] OTHER -> "ack_wait",
                 ![s].t = IF sends[s].pc = "w_start" THEN START_DELAY
                          ELSE WAIT_TIMEOUT]
            /\ last' = Silent
            /\ UNCHANGED <<transferVars, loopVars, imageLoopActive>>
  /\ UNCHANGED <<isDeviceConnected, isConnecting, deviceSelectorVisible,
                 availableDevices, uploadedImages, deviceRef, activityAge,
                 transferTimeoutCheckerRef, readVars, portOpen, conns, clears,
                 aborts, exp>>

\* lines 682-701: the pause after START_RTIMAGE is over and the header is
\* written
SendHeader(s) ==
  /\ sends[s].pc = "sleep" /\ sends[s].t = 0
  /\ IF deviceRef = 0
       THEN SendFails(s, "WriteError")
       ELSE /\ SendWrites(s, "header", HeaderHex(sends[s].n), "w_header")
            /\ UNCHANGED <<transferVars, loopVars, imageLoopActive>>
  /\ UNCHANGED <<isDeviceConnected, isConnecting, deviceSelectorVisible,
                 availableDevices, uploadedImages, deviceRef, activityAge,
                 transferTimeoutCheckerRef, readVars, portOpen, conns, clears,
                 aborts, exp>>

\* lines 709-739: a 10 ms check of the ready wait finds the wait over: it
\* rejects when transferAbortedRef is set, else resolves when
\* transferInProgressRef is clear, and the payload is then written
ReadyPoll(s) ==
  /\ sends[s].pc = "ready_wait"
  /\ transferAbortedRef \/ ~transferInProgressRef
  /\ IF transferAbortedRef \/ deviceRef = 0
       THEN SendFails(s, IF transferAbortedRef THEN "Aborted" ELSE "WriteError")
       ELSE /\ SendWrites(s, "payload", <<>>, "w_payload")
            /\ UNCHANGED <<transferVars, loopVars, imageLoopActive>>
  /\ UNCHANGED <<isDeviceConnected, isConnecting, deviceSelectorVisible,
                 availableDevices, uploadedImages, deviceRef, activityAge,
                 transferTimeoutCheckerRef, readVars, portOpen, conns, clears,
                 aborts, exp>>

\* lines 705-707: the 500 ms timer of the ready wait fires first
ReadyTimeout(s) ==
  /\ sends[s].pc = "ready_wait" /\ sends[s].t = 0
  /\ SendFails(s, "ReadyTimeout")
  /\ UNCHANGED <<isDeviceConnected, isConnecting, deviceSelectorVisible,
                 availableDevices, uploadedImages, deviceRef, activityAge,
                 transferTimeoutCheckerRef, readVars, portOpen, conns, clears,
                 aborts, exp>>

\* lines 747-763: a 10 ms check of the ack wait finds the wait over
AckPoll(s) ==
  /\ sends[s].pc = "ack_wait"
  /\ transferAbortedRef \/ ~transferInProgressRef
  /\ IF transferAbortedRef
       THEN SendFails(s, "Aborted")
       ELSE SendSucceeds(s)
  /\ UNCHANGED <<isDeviceConnected, isConnecting, deviceSelectorVisible,
                 availableDevices, uploadedImages, deviceRef, activityAge,
                 transferTimeoutCheckerRef, readVars, portOpen, conns, clears,
                 aborts, exp>>

\* lines 743-745: the 500 ms timer of the ack wait fires first
AckTimeout(s) ==
  /\ sends[s].pc = "ack_wait" /\ sends[s].t = 0
  /\ SendFails(s, "AckTimeout")
  /\ UNCHANGED <<isDeviceConnected, isConnecting, deviceSelectorVisible,
                 availableDevices, uploadedImages, deviceRef, activityAge,
                 transferTimeoutCheckerRef, readVars, portOpen, conns, clears,
                 aborts, exp>>

(***************************************************************************)
(* abortTransfer, the timeout checker and the read callback.               *)
(***************************************************************************)

\* abortTransfer without the test of deviceRef.current in line 469
AbortStartsAnyDevice == transferInProgressRef

\* line 469: abortTransfer does something only when a transfer is in
\* progress and deviceRef is set
AbortStarts == transferInProgressRef /\ deviceRef # 0

\* lines 470-475: the write of ABORT reaches the channel or throws, and the
\* catch swallows the error
AbortWrites ==
  IF CanWrite(deviceRef) THEN {NoWrite, "ABORT"} ELSE {NoWrite}

\* lines 473-477: the ABORT write has settled either way
AbortDone ==
  /\ aborts > 0
  /\ aborts' = aborts - 1
  /\ transferAbortedRef' = TRUE
  /\ transferInProgressRef' = FALSE
  /\ last' = Silent
  /\ UNCHANGED <<reactVars, deviceRef, loopVars, activityAge,
                 transferTimeoutCheckerRef, readVars, portOpen, conns, sends,
                 clears, exp>>

\* lines 453-464: a tick of the timeout checker.  disconnectDevice does not
\* clear the interval, so it ticks from the first startReading on.
CheckerTick ==
  /\ transferTimeoutCheckerRef
  /\ IF transferInProgressRef /\ activityAge > TRANSFER_TIMEOUT /\ AbortStarts
       THEN /\ aborts < MaxAborts
            /\ aborts' = aborts + 1
            /\ \E w \in AbortWrites :
                 last' = [Silent EXCEPT !.write = w, !.call = "ABORT"]
       ELSE last' = Silent /\ UNCHANGED aborts
  /\ UNCHANGED <<reactVars, deviceRef, loopVars, transferVars, activityAge,
                 transferTimeoutCheckerRef, readVars, portOpen, conns, sends,
                 clears, exp>>

\* what the device's chunk means to the sends that are waiting
Noted(snd, bytes, sig) ==
  [snd EXCEPT
     !.ready = IF sig = "Ready" /\ snd.pc = "ready_wait"
                 THEN (IF snd.ready = "clean"
                            \/ (~transferAbortedRef /\ aborts = 0 /\ snd.t > 0)
                         THEN "clean" ELSE "wait")
               ELSE IF sig = "Ready" /\ snd.pc = "w_header" /\ snd.ready = "no"
                 THEN "early"
               ELSE snd.ready,
     !.sawAck = snd.sawAck \/ (sig = "AckOk" /\ snd.pc \in {"w_payload", "ack_wait"}),
     !.sentLost = snd.sentLost \/ (Includes(bytes, FRAME_LOST) /\ snd.pc = "ack_wait"),
     !.sawErr = snd.sawErr \/ (sig = "AckError" /\ snd.t > 0
                                  /\ snd.pc \in {"ready_wait", "ack_wait"})]

\* lines 372-437: the read callback runs on a chunk
Deliver(bytes) ==
  LET r == Classify(messageBuffer, bytes) IN
  /\ reader.registered /\ reader.isDeviceConnected /\ portOpen # 0
  /\ messageBuffer' = r.buffer
  /\ transferInProgressRef' =
       IF r.signal \in {"AckOk", "AckError"} THEN FALSE ELSE transferInProgressRef
  /\ transferAbortedRef' =
       IF r.signal = "AckError" \/ r.frameLost THEN TRUE ELSE transferAbortedRef
  /\ activityAge' = Fresh
  /\ sends' = [s \in SendIds |-> Noted(sends[s], bytes, r.signal)]
  \* lines 414-419: FRAME_LOST sets the flag and calls abortTransfer
  /\ LET rd == [done |-> TRUE, chunk |-> bytes, before |-> messageBuffer,
                signal |-> r.signal, log |-> r.log]
     IN IF r.frameLost /\ AbortStarts
          THEN /\ aborts < MaxAborts
               /\ aborts' = aborts + 1
               /\ \E w \in AbortWrites :
                    last' = [Silent EXCEPT !.write = w, !.call = "ABORT",
                                           !.read = rd]
          ELSE /\ last' = [Silent EXCEPT !.read = rd]
               /\ UNCHANGED aborts
  /\ reader' = reader
  /\ UNCHANGED <<reactVars, deviceRef, loopVars, transferTimeoutCheckerRef,
                 portOpen, conns, clears>>


\* a chunk arrives on its own
Read(bytes) ==
  /\ exp.phase # "half"
  /\ Deliver(bytes)
  /\ exp' = NoExp

\* the first cut bytes of text arrive as one chunk
SplitFirst(text, cut) ==
  /\ exp.phase # "half"
  /\ Deliver(SubSeq(text, 1, cut))
  /\ exp' = [phase |-> "half", buf0 |-> messageBuffer, text |-> text, cut |-> cut,
             log |-> Classify(messageBuffer, SubSeq(text, 1, cut)).log]

\* the rest of the text arrives as the next chunk
SplitSecond ==
  /\ exp.phase = "half"
  /\ Deliver(SubSeq(exp.text, exp.cut + 1, Len(exp.text)))
  /\ exp' = [exp EXCEPT !.phase = "done",
               !.log = exp.log \o Classify(messageBuffer,
                          SubSeq(exp.text, exp.cut + 1, Len(exp.text))).log]

(***************************************************************************)
(* Time.  Every one-shot timer counts down in t; Tick moves time to the    *)
(* next deadline.  The 10 ms checks of a wait are not counted: a check     *)
(* whose condition holds runs before time moves on, and a timer that is    *)
(* due fires before time moves on.                                         *)
(***************************************************************************)

Timers ==
  {sends[s].t : s \in {x \in SendIds : sends[x].pc \in {"sleep", "ready_wait", "ack_wait"}}}
    \cup {clears[c].t : c \in {x \in ClearIds : clears[x].pc = "sleep"}}
    \cup {conns[c].t : c \in {x \in ConnIds : conns[x].pc = "delay"}}

PollDue ==
  \E s \in SendIds :
    /\ sends[s].pc \in {"ready_wait", "ack_wait"}
    /\ transferAbortedRef \/ ~transferInProgressRef

Tick ==
  /\ Timers # {} /\ 0 \notin Timers /\ ~PollDue
  /\ LET d == Lowest(Timers) IN
       /\ sends' = [s \in SendIds |->
                      IF sends[s].pc \in {"sleep", "ready_wait", "ack_wait"}
                        THEN [sends[s] EXCEPT !.t = @ - d] ELSE sends[s]]
       /\ clears' = [c \in ClearIds |->
                       IF clears[c].pc = "sleep"
                         THEN [clears[c] EXCEPT !.t = @ - d] ELSE clears[c]]
       /\ conns' = [c \in ConnIds |->
                      IF conns[c].pc = "delay"
                        THEN [conns[c] EXCEPT !.t = @ - d] ELSE conns[c]]
  /\ last' = Silent
  /\ UNCHANGED <<reactVars, deviceRef, loopVars, transferVars, activityAge,
                 transferTimeoutCheckerRef, readVars, portOpen, aborts, exp>>

\* More than TRANSFER_TIMEOUT passes while no timer is pending (a pause of
\* the user, a slow write): the last activity is now that long ago.
LongDelay ==
  /\ Timers = {}
  /\ activityAge = Fresh
  /\ activityAge' = Stale
  /\ last' = Silent
  /\ UNCHANGED <<reactVars, deviceRef, loopVars, transferVars,
                 transferTimeoutCheckerRef, readVars, portOpen, conns, sends,
                 clears, aborts, exp>>

(***************************************************************************)
(* The specifications.                                                     *)
(***************************************************************************)

\* the chunks the device sends in Spec: each signal byte alone, the two
\* sentinels, and a line of text ("A\n")
ProtocolChunks ==
  {<<READY_BYTE>>, <<ACK_BYTE>>, <<ERR_BYTE>>, FRAME_LOST, INVALID_CMD, <<65, LF>>}

Next ==
  \/ ConnectPress
  \/ DisconnectPress
  \/ \E c \in ConnIds : RecoverStart(c)
  \/ \E c \in ConnIds : CloseDone(c)
  \/ \E c \in ConnIds : DelayDone(c)
  \/ \E c \in ConnIds : ListDone(c)
  \/ \E d \in 1..2 : SelectPress(d)
  \/ SelectorCancel
  \/ \E c \in ConnIds : OpenDone(c)
  \/ \E cmd \in CommandInputs : CommandPress(cmd)
  \/ ClearImagePress
  \/ \E c \in ClearIds : ClearDone(c)
  \/ ClearAllPress
  \/ \E img \in PickableImages : PickImage(img)
  \/ \E i \in 0..(MaxImages - 1) : RemoveImage(i)
  \/ StartLoopPress
  \/ StopLoopPress
  \/ LoopTick
  \/ \E s \in SendIds : SendWriteDone(s)
  \/ \E s \in SendIds : SendHeader(s)
  \/ \E s \in SendIds : ReadyPoll(s)
  \/ \E s \in SendIds : ReadyTimeout(s)
  \/ \E s \in SendIds : AckPoll(s)
  \/ \E s \in SendIds : AckTimeout(s)
  \/ AbortDone
  \/ CheckerTick
  \/ \E bytes \in ProtocolChunks : Read(bytes)
  \/ Tick
  \/ LongDelay

Spec == Init /\ [][Next]_vars

\* The state after a first connection has been recovered once: Connect
\* (the port opens, startReading returns at line 367 on the stale
\* isDeviceConnected), a command whose write rejects, handleConnectionError
\* (close, pause, list, open) and startReading from that render, which
\* registers the callback and starts the timeout checker.
InitReading ==
  /\ isDeviceConnected = TRUE
  /\ isConnecting = FALSE
  /\ deviceSelectorVisible = FALSE
  /\ availableDevices = {}
  /\ uploadedImages = <<>>
  /\ imageLoopActive = FALSE
  /\ deviceRef = 1
  /\ currentImageIndexRef = 0
  /\ imageLoopIntervalRef = NoInterval
  /\ transferInProgressRef = FALSE
  /\ transferAbortedRef = FALSE
  /\ activityAge = Fresh
  /\ transferTimeoutCheckerRef = TRUE
  /\ reader = [registered |-> TRUE, isDeviceConnected |-> TRUE]
  /\ messageBuffer = <<>>
  /\ portOpen = 1
  /\ conns = [c \in ConnIds |-> IdleConn]
  /\ sends = [s \in SendIds |-> IdleSend]
  /\ clears = [c \in ClearIds |-> IdleClear]
  /\ aborts = 0
  /\ last = Silent
  /\ exp = NoExp

\* what the device sends while images are transferred: the three signal
\* bytes and the frame-lost sentinel
TransferChunks == {<<READY_BYTE>>, <<ACK_BYTE>>, <<ERR_BYTE>>, FRAME_LOST}

\* The transfer engine on an open, read connection with one image, at the
\* timing the interval is chosen for: a send is over before the next one
\* starts.  The connection flows stay out, so the writes of the commands do
\* not reject here (conns is left alone); a write of the send may.  The
\* payload is written only once transferInProgressRef is clear, and only
\* another send sets it again: the timer of the ack wait (AckTimeout) has
\* nothing to do here.
\* the commands of SpecTransfer: one the validation accepts and one it
\* rejects
TransferCommands ==
  {[id |-> "textDisplayCommand", value |-> <<65>>],
   [id |-> "screentimeCommand", value |-> ScreenTime(<<50, 57>>)]}

NextTransfer ==
  \/ \E cmd \in TransferCommands : CommandPress(cmd) /\ conns' = conns
  \/ ClearImagePress /\ conns' = conns
  \/ \E c \in ClearIds : ClearDone(c)
  \/ ClearAllPress /\ conns' = conns
  \/ uploadedImages = <<>> /\ PickImage(1)
  \/ FreeSends = SendIds /\ StartLoopPress
  \/ StopLoopPress
  \/ FreeSends = SendIds /\ LoopTick
  \/ \E s \in SendIds : SendWriteDone(s)
  \/ \E s \in SendIds : SendHeader(s)
  \/ \E s \in SendIds : ReadyPoll(s)
  \/ \E s \in SendIds : ReadyTimeout(s)
  \/ \E s \in SendIds : AckPoll(s)
  \/ AbortDone
  \/ CheckerTick
  \/ \E bytes \in TransferChunks : Read(bytes)
  \/ Tick
  \/ LongDelay

SpecTransfer == InitReading /\ [][NextTransfer]_vars

\* The loop with slow writes: a tick of the interval, or a Start after a
\* Stop, may find the previous send still in flight.  Commands, clearImage
\* and the timeout checker stay out.
NextOverlap ==
  \/ uploadedImages = <<>> /\ PickImage(1)
  \/ StartLoopPress
  \/ StopLoopPress
  \/ LoopTick
  \/ \E s \in SendIds : SendWriteDone(s)
  \/ \E s \in SendIds : SendHeader(s)
  \/ \E s \in SendIds : ReadyPoll(s)
  \/ \E s \in SendIds : ReadyTimeout(s)
  \/ \E s \in SendIds : AckPoll(s)
  \/ \E s \in SendIds : AckTimeout(s)
  \/ \E bytes \in TransferChunks : Read(bytes)
  \/ Tick

SpecOverlap == InitReading /\ [][NextOverlap]_vars

(***************************************************************************)
(* The read callback on its own: texts over a small alphabet, and the      *)
(* sentinels, arrive whole or cut in two at every offset.                  *)
(***************************************************************************)

\* the longest generic chunk
MaxChunkLen == 2
\* the longest unfinished line a new delivery may find in messageBuffer
MaxBuffer == 2

\* the three signal bytes, a letter, a line feed, and the two bytes of U+00E9
Alphabet == {READY_BYTE, ACK_BYTE, ERR_BYTE, 65, LF, 195, 169}

GenericTexts == UNION {[1..n -> Alphabet] : n \in 1..MaxChunkLen}

\* the sentinels alone, in other text, twice and nested; a byte order mark
\* inside a line; a line with blanks and a carriage return; a line of one
\* two-byte character; a line followed by an ack byte
SentinelTexts ==
  { <<195, 169, LF>>,
    <<65, LF, ACK_BYTE>>,
    FRAME_LOST,
    <<65>> \o FRAME_LOST \o <<65, LF>>,
    INVALID_CMD,
    <<65>> \o INVALID_CMD \o <<65, LF>>,
    INVALID_CMD \o INVALID_CMD,
    SubSeq(INVALID_CMD, 1, 8) \o INVALID_CMD \o SubSeq(INVALID_CMD, 9, 13),
    <<65, 239, 187, 191, 65, LF>>,
    <<32, 65, 32, CR, LF, 32, LF>> }

ClassifierTexts == GenericTexts \cup SentinelTexts

\* the chunks that set up the unfinished line a delivery meets
Fillers == {<<65>>, <<LF>>, <<195, 169>>}

\* the last chunk was a filler, or there was none yet
Settled == exp.phase = "none" /\ (last.read.done => last.read.chunk \in Fillers)

\* fillers set up messageBuffer; then one text arrives whole, or cut in two
NextClassifier ==
  \/ \E bytes \in ClassifierTexts :
       /\ IF bytes \in Fillers
            THEN /\ Len(messageBuffer) <= MaxBuffer
                 /\ Len(Classify(messageBuffer, bytes).buffer) <= MaxBuffer
            ELSE Settled
       /\ Read(bytes)
  \/ \E text \in ClassifierTexts : \E cut \in 1..(Len(text) - 1) :
       /\ Settled
       /\ SplitFirst(text, cut)
  \/ SplitSecond

SpecClassifier == InitReading /\ [][NextClassifier]_vars

\* The loop over several images, one send at a time: images are picked and
\* removed, the loop is started and stopped.  No write rejects, and the
\* device sends its ready and ack bytes only.
LoopChunks == {<<READY_BYTE>>, <<ACK_BYTE>>}
WriteReached == last'.call = last'.write

NextLoop ==
  \/ PickImage(1)
  \/ \E index \in 0..(MaxImages - 1) : RemoveImage(index)
  \/ FreeSends = SendIds /\ StartLoopPress /\ WriteReached
  \/ StopLoopPress
  \/ FreeSends = SendIds /\ LoopTick /\ WriteReached
  \/ \E s \in SendIds : SendWriteDone(s)
  \/ \E s \in SendIds : SendHeader(s) /\ WriteReached
  \/ \E s \in SendIds : ReadyPoll(s) /\ WriteReached
  \/ \E s \in SendIds : ReadyTimeout(s)
  \/ \E s \in SendIds : AckPoll(s)
  \/ \E bytes \in LoopChunks : Read(bytes)
  \/ Tick

SpecLoop == InitReading /\ [][NextLoop]_vars

\* The images of the header check: one without data (base64 '' is stored
\* as null, line 584), and payloads of 1, 258 (0x0102) and 16909060
\* (0x01020304) bytes
HeaderImages == {NoData, 1, 258, 16909060}

\* The loop over one or two images of several sizes on an open connection:
\* one send at a time, the writes may reject
NextHeader ==
  \/ \E img \in HeaderImages : Len(uploadedImages) < 2 /\ PickImage(img)
  \/ FreeSends = SendIds /\ StartLoopPress
  \/ StopLoopPress
  \/ FreeSends = SendIds /\ LoopTick
  \/ \E s \in SendIds : SendWriteDone(s)
  \/ \E s \in SendIds : SendHeader(s)
  \/ \E s \in SendIds : ReadyPoll(s)
  \/ \E s \in SendIds : ReadyTimeout(s)
  \/ \E s \in SendIds : AckPoll(s)
  \/ \E bytes \in LoopChunks : Read(bytes)
  \/ Tick

SpecHeader == InitReading /\ [][NextHeader]_vars

\* The loop over two images that have been picked, with slow writes: a
\* tick, or a Start after a Stop, may find the previous send still in
\* flight.
InitCycle ==
  /\ isDeviceConnected = TRUE
  /\ isConnecting = FALSE
  /\ deviceSelectorVisible = FALSE
  /\ availableDevices = {}
  /\ uploadedImages = <<1, 1>>
  /\ imageLoopActive = FALSE
  /\ deviceRef = 1
  /\ currentImageIndexRef = 0
  /\ imageLoopIntervalRef = NoInterval
  /\ transferInProgressRef = FALSE
  /\ transferAbortedRef = FALSE
  /\ activityAge = Fresh
  /\ transferTimeoutCheckerRef = TRUE
  /\ reader = [registered |-> TRUE, isDeviceConnected |-> TRUE]
  /\ messageBuffer = <<>>
  /\ portOpen = 1
  /\ conns = [c \in ConnIds |-> IdleConn]
  /\ sends = [s \in SendIds |-> IdleSend]
  /\ clears = [c \in ClearIds |-> IdleClear]
  /\ aborts = 0
  /\ last = Silent
  /\ exp = NoExp

NextCycle ==
  \/ StartLoopPress /\ WriteReached
  \/ StopLoopPress
  \/ LoopTick /\ WriteReached
  \/ \E s \in SendIds : SendWriteDone(s)
  \/ \E s \in SendIds : SendHeader(s) /\ WriteReached
  \/ \E s \in SendIds : ReadyPoll(s) /\ WriteReached
  \/ \E s \in SendIds : ReadyTimeout(s)
  \/ \E s \in SendIds : AckPoll(s)
  \/ \E s \in SendIds : AckTimeout(s)
  \/ \E bytes \in LoopChunks : Read(bytes)
  \/ Tick

SpecCycle == InitCycle /\ [][NextCycle]_vars

\* Commands of every kind of value beside a running loop; their write does
\* not reject.
NextCommand ==
  \/ \E cmd \in CommandInputs : CommandPress(cmd) /\ conns' = conns
  \/ uploadedImages = <<>> /\ PickImage(1)
  \/ FreeSends = SendIds /\ StartLoopPress
  \/ StopLoopPress
  \/ FreeSends = SendIds /\ LoopTick
  \/ \E s \in SendIds : SendWriteDone(s)
  \/ \E s \in SendIds : SendHeader(s)
  \/ \E s \in SendIds : ReadyTimeout(s)
  \/ Tick

SpecCommand == InitReading /\ [][NextCommand]_vars

\* The connection alone, from the mounted component: connecting,
\* disconnecting, the selector, commands whose write may reject, the
\* recovery that follows, and the timeout checker.
NextConnect ==
  \/ ConnectPress
  \/ DisconnectPress
  \/ \E c \in ConnIds : RecoverStart(c)
  \/ \E c \in ConnIds : CloseDone(c)
  \/ \E c \in ConnIds : DelayDone(c)
  \/ \E c \in ConnIds : ListDone(c)
  \/ \E d \in {dev.deviceId : dev \in Devices} : SelectPress(d)
  \/ SelectorCancel
  \/ \E c \in ConnIds : OpenDone(c)
  \/ \E cmd \in TransferCommands : CommandPress(cmd)
  \/ CheckerTick
  \/ Tick

SpecConnect == Init /\ [][NextConnect]_vars

\* A session that is disconnected and connected again while commands,
\* clears, one send at a time and the timeout checker go on.  One
\* connection call and one clearImage run at a time, the device sends
\* nothing, and the write of a command or a clear does not reject.
NextSession ==
  \/ FreeConns = ConnIds /\ ConnectPress
  \/ FreeConns = ConnIds /\ DisconnectPress
  \/ \E c \in ConnIds : CloseDone(c)
  \/ \E c \in ConnIds : ListDone(c)
  \/ \E d \in {dev.deviceId : dev \in Devices} :
       FreeConns = ConnIds /\ SelectPress(d)
  \/ SelectorCancel
  \/ \E c \in ConnIds : OpenDone(c)
  \/ \E cmd \in TransferCommands : CommandPress(cmd) /\ conns' = conns
  \/ FreeClears = ClearIds /\ ClearImagePress /\ conns' = conns
  \/ \E c \in ClearIds : ClearDone(c)
  \/ ClearAllPress /\ conns' = conns
  \/ uploadedImages = <<>> /\ PickImage(1)
  \/ FreeSends = SendIds /\ StartLoopPress
  \/ FreeSends = SendIds /\ LoopTick
  \/ \E s \in SendIds : SendWriteDone(s)
  \/ \E s \in SendIds : SendHeader(s)
  \/ \E s \in SendIds : ReadyPoll(s)
  \/ \E s \in SendIds : ReadyTimeout(s)
  \/ \E s \in SendIds : AckPoll(s)
  \/ AbortDone
  \/ CheckerTick
  \/ Tick
  \/ LongDelay

SpecSession == InitReading /\ [][NextSession]_vars

(***************************************************************************)
(* Properties of the transfer handshake.                                   *)
(***************************************************************************)

\* C1: a send that received a ready chunk during its ready wait, before the
\* deadline and with no abort pending, does not end with 'Timeout waiting
\* for ready signal'.
C1_ReadyEndsTheWait ==
  last.end.result = "ReadyTimeout" => last.end.ready # "clean"

\* C2: a send whose payload write has been called has received a ready
\* chunk since its header write was called.
C2_PayloadOnlyAfterReady ==
  \A s \in SendIds :
    sends[s].pc \in {"w_payload", "ack_wait"} => sends[s].ready # "no"

\* C3: a send that ends with 'Image sent successfully' has received a
\* success ack since its payload write was called.
C3_SuccessOnlyAfterAck ==
  last.end.result = "ok" => last.end.sawAck

\* C4: a send that has received no ready chunk since its header write, and
\* that neither was aborted nor had a write rejected, ends with 'Timeout
\* waiting for ready signal' and leaves transferInProgressRef false.
C4_NoReadyTimesOut ==
  (last.end.result \in {"ok", "AckTimeout", "ReadyTimeout"}
     /\ last.end.ready = "no")
    => (last.end.result = "ReadyTimeout" /\ ~transferInProgressRef)

\* C5: a send that was sent FRAME_LOST\r\n during its ack wait does not end
\* with 'Timeout waiting for acknowledgment'.
C5_FrameLostNeverTimesOut ==
  last.end.result = "AckTimeout" => ~last.end.sentLost

\* C9: at most one send is between its START_RTIMAGE write and its end.
C9_OneSendAtATime ==
  Cardinality({s \in SendIds : sends[s].pc # "idle"}) <= 1

\* C10: executeCommand, clearImage and clearAllImages write to the channel
\* only while no send is between its START_RTIMAGE write and its end.
C10_NoCommandDuringTransfer ==
  last.write \in {"command", "clearImage", "clearAllImages"}
    => \A s \in SendIds : sends[s].pc = "idle"

(***************************************************************************)
(* Properties of the read callback.                                        *)
(***************************************************************************)

FrameLostEntries(log) ==
  Cardinality({i \in 1..Len(log) : log[i].kind = "framelost"})

\* C6: a text that holds FRAME_LOST\r\n once, delivered as one chunk or as
\* two, makes the callback report FRAME_LOST exactly once.
C6_FrameLostDetected ==
  /\ (last.read.done /\ exp.phase = "none"
        /\ Includes(last.read.chunk, FRAME_LOST))
       => FrameLostEntries(last.read.log) = 1
  /\ (exp.phase = "done" /\ Includes(exp.text, FRAME_LOST))
       => FrameLostEntries(exp.log) = 1

ControlBytes == {READY_BYTE, ACK_BYTE, ERR_BYTE}

ControlAt(bytes) == {i \in 1..Len(bytes) : bytes[i] \in ControlBytes}

SignalFor(b) ==
  IF b = READY_BYTE THEN "Ready" ELSE IF b = ACK_BYTE THEN "AckOk" ELSE "AckError"

\* C7: a chunk that holds exactly one control byte gives the signal of that
\* byte, no monitor line, and leaves messageBuffer as it was.
C7_SignalChunk ==
  (last.read.done /\ Cardinality(ControlAt(last.read.chunk)) = 1)
    => /\ \A i \in ControlAt(last.read.chunk) :
            last.read.signal = SignalFor(last.read.chunk[i])
       /\ last.read.log = <<>>
       /\ messageBuffer = last.read.before

\* C7: an error ack inside other bytes has arrived on an unfinished line
C7_Witness ==
  /\ last.read.done
  /\ Cardinality(ControlAt(last.read.chunk)) = 1
  /\ Len(last.read.chunk) > 1
  /\ last.read.before # <<>>
  /\ last.read.signal = "AckError"

NoControlByte(text) == ControlAt(text) = {}

\* the two chunks decode to the text the whole decodes to: the cut is not
\* inside a multi-byte sequence nor in front of a byte order mark
CutKeepsDecoding(text, cut) ==
  Decode(SubSeq(text, 1, cut)) \o Decode(SubSeq(text, cut + 1, Len(text)))
    = Decode(text)

\* once the first INVALID_CMD\r\n is taken out, there is no other
OneInvalidAtMost(buf, text) ==
  ~Includes(ReplaceFirst(buf \o Decode(text), INVALID_CMD), INVALID_CMD)

C11_OneAbortPerTransfer == aborts <= 1

(***************************************************************************)
(* The image loop (lines 771-825).                                         *)
(***************************************************************************)

\* C12: when a send issued by the image loop has failed, the initial send
\* made by startImageLoop included, no interval is installed (so that no
\* further send is started by the loop).
C12_FailedSendStopsLoop ==
  last.end.result \notin {"none", "ok"} => ~imageLoopIntervalRef.set

\* C13: once stopImageLoop, disconnectDevice or executeCommand has run, no
\* interval remains, also when it ran while the initial send of
\* startImageLoop was still in flight: when that send then ends, here with
\* success, no interval is installed.
C13_StoppedLoopStaysStopped ==
  (last.end.halted /\ last.end.result = "ok") => ~imageLoopIntervalRef.set

\* C14: a loop over n images whose sends all succeed visits the indices
\* in cyclic order: when the send of index i has succeeded, the index the
\* next send will use is (i + 1) mod n.
C14_CyclicOrder ==
  last.end.result = "ok"
    => currentImageIndexRef = (last.end.idx + 1) % last.end.len

\* C15: whenever the image sequence is not empty, the loop's index is
\* smaller than its current length, also after removeImage during a
\* running loop.
C15_IndexWithinImages ==
  uploadedImages # <<>> => currentImageIndexRef < Len(uploadedImages)

(***************************************************************************)
(* The local validation of executeCommand (lines 519-551).                 *)
(***************************************************************************)

C18_OpenStartsReading ==
  portOpen # 0 => (reader.registered /\ transferTimeoutCheckerRef)

\* C19: once the connection is closed (the port is closed and deviceRef is
\* null), the timeout checker no longer runs.
C19_CloseStopsChecker ==
  (portOpen = 0 /\ deviceRef = 0) => ~transferTimeoutCheckerRef

\* C20: one failure leads to at most one automatic reconnect:
\* handleConnectionError calls connectToDevice at most once in the chain of
\* calls that the failure started.
C20_OneRecoveryAttempt == \A c \in ConnIds : conns[c].tries <= 1

\* C16: no write call is made while the device handle is absent: every
\* call of UsbSerial.write or writeHexString (executeCommand, clearImage,
\* clearAllImages, each write of sendImageToDevice, the ABORT of
\* abortTransfer) is made while deviceRef holds a device, also when the
\* connection was closed in the middle of a send.
C16_NoWriteWithoutDevice == last.call # NoWrite => deviceRef # 0

\* a send whose connection was closed under it has ended, and made no
\* write call
C16_Witness ==
  /\ last.end.result = "WriteError"
  /\ deviceRef = 0 /\ portOpen = 0
  /\ last.call = NoWrite

(***************************************************************************)
(* Connection failures.                                                    *)
(***************************************************************************)

\* lines 482-503: handleConnectionError returns false: its disconnectDevice
\* or its connectToDevice threw, or connectToDevice returned false
RecoverFailed ==
  /\ last.conn.kind = "recover"
  /\ last.conn.event \in {"closeFailed", "listFailed", "noDevice", "several",
                          "openFailed"}

\* C21: whenever recover reports failure the system is disconnected
\* afterwards: the device handle is absent and connected is false, also
\* when the close step of recover fails.
C21_FailedRecoverDisconnects ==
  RecoverFailed => (deviceRef = 0 /\ ~isDeviceConnected)

\* a connectToSelectedDevice whose open was rejected has just returned
OpenFailed == last.conn.event = "openFailed"

\* C22: a failed open leaves no Channel: when the transport's open fails,
\* connect fails with a connection error ('Connection failed' thrown, the
\* flow is over), the device handle is absent afterwards, the port is not
\* open and connected stays what it was, false.
C22_FailedOpenLeavesNoChannel ==
  [][OpenFailed' =>
       /\ deviceRef' = 0
       /\ \A c \in ConnIds : conns[c].pc = "open" /\ conns'[c].pc # "open"
                               => conns'[c].pc = "idle"
       /\ portOpen' = portOpen
       /\ isDeviceConnected' = isDeviceConnected]_vars

\* an open was rejected on the first connection: no handle, no open port,
\* not connected
C22_Witness ==
  OpenFailed /\ deviceRef = 0 /\ portOpen = 0 /\ ~isDeviceConnected
    /\ last.conn.dev # 0

\* the deviceIds, among the devices a list returned, whose vendor identifier
\* is 0x1a86
Candidates(devices) ==
  {d.deviceId : d \in {x \in devices : x.vendorId = 6790}}

\* no flow reached the call of UsbSerial.open in the step, and neither the
\* device handle nor the port changed
NothingOpened ==
  /\ \A c \in ConnIds : conns'[c].pc = "open" => conns[c].pc = "open"
  /\ deviceRef' = deviceRef
  /\ portOpen' = portOpen

\* C23: connect considers only the devices with vendor identifier 0x1a86:
\* with exactly one such candidate it opens it, with more than one it opens
\* nothing and shows the candidates for selection, and with none it fails
\* with no device found and opens nothing.
C23_CandidateSelection ==
  [][last'.conn.event \in {"noDevice", "one", "several"} =>
       LET cand == Candidates(last'.conn.listed)
       IN /\ Cardinality(cand) = 1 =>
               /\ last'.conn.event = "one"
               /\ deviceRef' \in cand
               /\ \E c \in ConnIds :
                    /\ conns[c].pc = "list" /\ conns'[c].pc = "open"
                    /\ conns'[c].dev \in cand
          /\ Cardinality(cand) > 1 =>
               /\ last'.conn.event = "several"
               /\ NothingOpened
               /\ deviceSelectorVisible' /\ availableDevices' = cand
          /\ cand = {} =>
               /\ last'.conn.event = "noDevice"
               /\ NothingOpened
               /\ \E c \in ConnIds : conns[c].pc = "list" /\ conns'[c].pc = "idle"
               /\ UNCHANGED <<deviceSelectorVisible, availableDevices>>]_vars

\* the list returned both CH341 adapters and the stranger: the selector
\* shows the two adapters and nothing is opened
C23_Witness ==
  /\ last.conn.event = "several"
  /\ Cardinality(last.conn.listed) = 3
  /\ deviceSelectorVisible /\ availableDevices = {1, 2}
  /\ deviceRef = 0 /\ portOpen = 0

(***************************************************************************)
(* The frame header.                                                       *)
(***************************************************************************)

\* the byte length of an image's payload: an image without data has none
ByteLength(img) == IF img = NoData THEN 0 ELSE img

\* "33cc55aa" and the eight hex digits of n, least significant byte first,
\* written out for the payload sizes of HeaderImages
ExpectedHeader(n) ==
  <<51, 51, 99, 99, 53, 53, 97, 97>> \o
  CASE n = 0 -> <<48, 48, 48, 48, 48, 48, 48, 48>>
    [] n = 1 -> <<48, 49, 48, 48, 48, 48, 48, 48>>
    [] n = 258 -> <<48, 50, 48, 49, 48, 48, 48, 48>>
    [] n = 16909060 -> <<48, 52, 48, 51, 48, 50, 48, 49>>

\* the header write of a send carries the magic and the payload length,
\* both little-endian, in hex
HeaderOfPayload ==
  \A s \in SendIds :
    (last.call = "header" /\ sends[s].pc = "w_header")
      => last.text = ExpectedHeader(ByteLength(sends[s].n))

\* C24: for every image payload of n bytes, n = 0 included, send transmits
\* after START_RTIMAGE the hex of the header 33 cc 55 aa and n as a
\* little-endian 32-bit value, and for n = 0 the send still goes on to the
\* ready wait: a send called on an image with a device at hand is not
\* refused for the length of its payload.
C24_HeaderForEveryLength ==
  /\ HeaderOfPayload
  /\ (last.end.result = "NotConnected" /\ deviceRef # 0)
       => ByteLength(last.end.n) # 0

(***************************************************************************)
(* The transfer flags.                                                     *)
(***************************************************************************)

\* a send is between its START_RTIMAGE write and its termination
SendInFlight == \E s \in SendIds : sends[s].pc # "idle"

\* C25: the transfer state is Idle (transferInProgressRef false) if and only
\* if no send is between its START_RTIMAGE write and its termination: the
\* flag stays true while a send has its payload to write or its
\* acknowledgment to wait for.
C25_BusyWhileSending == transferInProgressRef <=> SendInFlight

\* C26: the aborted flag is one-way per transfer: once set during a
\* transfer (a send is in flight and the flag is set) it stays set until a
\* new send starts (lines 676-678, the step that calls the START_RTIMAGE
\* write); no other operation clears it.
C26_AbortedOneWay ==
  [][(SendInFlight /\ transferAbortedRef /\ ~transferAbortedRef')
       => last'.call = "START_RTIMAGE"]_vars

(***************************************************************************)
(* Termination of a send.                                                  *)
(***************************************************************************)

\* The loop with slow writes, where time goes on and every step of a send
\* that is due is taken: a write of the send settles, the pause ends, the
\* 10 ms checks of the waits run and their timers fire.
FairSends ==
  /\ SF_vars(Tick)
  /\ \A s \in SendIds :
       /\ WF_vars(SendWriteDone(s))
       /\ WF_vars(SendHeader(s))
       /\ WF_vars(ReadyPoll(s))
       /\ WF_vars(ReadyTimeout(s))
       /\ WF_vars(AckPoll(s))
       /\ WF_vars(AckTimeout(s))

\* what the device answers a transfer with: a success or an error ack
AckChunks == {<<ACK_BYTE>>, <<ERR_BYTE>>}

\* The loop where a tick of the interval, or a Start after a Stop, may find
\* the previous send in flight, with at most two sends at a time
NextLive ==
  \/ uploadedImages = <<>> /\ PickImage(1)
  \/ Cardinality(SendIds \ FreeSends) < 2 /\ StartLoopPress
  \/ StopLoopPress
  \/ Cardinality(SendIds \ FreeSends) < 2 /\ LoopTick
  \/ \E s \in SendIds : SendWriteDone(s)
  \/ \E s \in SendIds : SendHeader(s)
  \/ \E s \in SendIds : ReadyPoll(s)
  \/ \E s \in SendIds : ReadyTimeout(s)
  \/ \E s \in SendIds : AckPoll(s)
  \/ \E s \in SendIds : AckTimeout(s)
  \/ \E bytes \in AckChunks : Read(bytes)
  \/ Tick

SpecLive == InitReading /\ [][NextLive]_vars /\ FairSends

\* the results of a send that got past its guard
SendResults == {"ok", "ReadyTimeout", "AckTimeout", "Aborted", "WriteError"}

\* C27: every send eventually terminates, with success or with a failure,
\* and when it terminates the transfer state is Idle
\* (transferInProgressRef false), given that the writes settle and the
\* timers fire.
C27_SendTerminatesIdle ==
  /\ \A s \in SendIds : (sends[s].pc # "idle") ~> (sends[s].pc = "idle")
  /\ [](last.end.result \in SendResults => ~transferInProgressRef)

\* a send that overlapped another one has ended on the timer of its ack
\* wait, and the transfer state is Idle
C27_Witness ==
  /\ last.end.result = "AckTimeout"
  /\ ~transferInProgressRef
  /\ \E s \in SendIds : sends[s].pc = "idle"

(***************************************************************************)
(* The error acknowledgment.                                               *)
(***************************************************************************)

\* C28: an AckError byte 'E' received while a send is in its ready wait or
\* its ack wait makes that send fail with 'Transfer aborted', not succeed
\* and not time out, and no payload is written after it: a send that got
\* it is never at the payload write.
C28_ErrorAckAborts ==
  /\ last.end.sawErr => last.end.result = "Aborted"
  /\ \A s \in SendIds : sends[s].sawErr => sends[s].pc # "w_payload"

(***************************************************************************)
(* Priority of the signal bytes, and the invalid-command sentinel.         *)
(***************************************************************************)

\* the places of the ready byte, and of the ack bytes, in a chunk
ReadyAt(bytes) == {i \in 1..Len(bytes) : bytes[i] = READY_BYTE}
AckAt(bytes) == {i \in 1..Len(bytes) : bytes[i] \in {ACK_BYTE, ERR_BYTE}}

\* C29: a chunk with 'R' anywhere is classified as Ready only, whatever 'K'
\* or 'E' it holds and wherever they stand; a chunk without 'R' that holds
\* 'K' or 'E' is classified by whichever of the two comes first, and has
\* that ack's effect on the flags; in both cases the chunk makes no monitor
\* line and adds nothing to messageBuffer.
C29_SignalPriority ==
  last.read.done =>
    LET ch == last.read.chunk
    IN /\ ReadyAt(ch) # {} => last.read.signal = "Ready"
       /\ (ReadyAt(ch) = {} /\ AckAt(ch) # {}) =>
            \E i \in AckAt(ch) :
              /\ \A j \in AckAt(ch) : i <= j
              /\ last.read.signal = SignalFor(ch[i])
              /\ ~transferInProgressRef
              /\ ch[i] = ERR_BYTE => transferAbortedRef
       /\ (ReadyAt(ch) # {} \/ AckAt(ch) # {}) =>
            /\ last.read.log = <<>>
            /\ messageBuffer = last.read.before

\* an error ack followed by a ready byte has arrived on an unfinished line
\* and counted as Ready: the aborted flag is not set
C29_Witness ==
  /\ last.read.done
  /\ last.read.chunk = <<ERR_BYTE, READY_BYTE>>
  /\ last.read.signal = "Ready"
  /\ last.read.before # <<>>
  /\ ~transferAbortedRef

\* how many times the invalid-command sentinel occurs in a text
Occurrences(s) ==
  Cardinality({i \in 1..Len(s) :
                 /\ i + Len(INVALID_CMD) - 1 <= Len(s)
                 /\ SubSeq(s, i, i + Len(INVALID_CMD) - 1) = INVALID_CMD})

\* how many invalid-command events a run of the callback reported
InvalidEntries(log) ==
  Cardinality({i \in 1..Len(log) : log[i].kind = "invalid"})

\* C30: every occurrence of "INVALID_CMD\r\n" in the inbound text, several
\* in one chunk included, is reported as the invalid-command event: a run
\* of the callback on text reports as many events as the text it works on
\* (the unfinished line and the chunk) holds sentinels.
C30_EveryInvalidReported ==
  (last.read.done /\ last.read.signal = "None") =>
    InvalidEntries(last.read.log)
      = Occurrences(last.read.before \o Decode(last.read.chunk))

(***************************************************************************)
(* The timeout checker and the rejected commands.                          *)
(***************************************************************************)

\* the step is a tick of the timeout checker that calls abortTransfer: an
\* ABORT write is called and no chunk was read
CheckerAborts ==
  aborts' > aborts /\ last'.call = "ABORT" /\ ~last'.read.done

\* C31: the timeout checker never aborts a transfer that started less than
\* 15000 ms ago, whatever the time since the last inbound byte before the
\* transfer began: the step that follows the start of a send (its
\* START_RTIMAGE write was just called, no time has passed) is not an
\* abort by the checker.
C31_NoAbortOfFreshTransfer ==
  [][last.call = "START_RTIMAGE" => ~CheckerAborts]_vars

\* C32: a command that is rejected locally (empty, malformed or
\* out-of-range screen time) changes no protocol state: it writes nothing
\* and leaves a running image loop scheduled and active.
C32_RejectedCommandChangesNothing ==
  [][(last'.cmd.id # "none" /\ ~CommandAccepted(last'.cmd))
       => /\ last'.call = NoWrite
          /\ (imageLoopIntervalRef.set /\ imageLoopActive)
               => UNCHANGED <<imageLoopIntervalRef, imageLoopActive>>
          /\ UNCHANGED <<transferInProgressRef, transferAbortedRef>>]_vars

============================================================================
